---- MODULE Spec2Model ----
(***************************************************************************)
(* fbx2glb: the pipeline orchestrator (bin/fbx2glb.js with lib/utils.js,   *)
(* lib/transform.js, lib/report.js, lib/ui.js) and the comparison engine   *)
(* (lib/compare.js).                                                       *)
(*                                                                         *)
(* Spec    : one run of the orchestrator, from the pre-flight checks to    *)
(*           process.exit.  Every external operation (converter, codec     *)
(*           loading, parse, transforms, serialisation, file writes,       *)
(*           unlink) succeeds or fails by the environment's choice.        *)
(* CmpSpec : analyzeComparison applied to pairs of inspect snapshots drawn *)
(*           from a bounded set.                                           *)
(***************************************************************************)
EXTENDS Integers, Sequences, FiniteSets, TLC

VARIABLES
    pc,            \* position of the orchestrator
    options,       \* commander options: draco, ktx2, output
    toolAvailable, \* FBX2glTF --version succeeds
    files,         \* paths that exist on disk
    written,       \* [path, by]: the files this run wrote, and the stage that wrote each
    trace,         \* stages attempted so far, in order
    fatal,         \* kind of the error that aborted the run, "none" if none
    log,           \* messages logged by the transient clean-up
    stageUnlink,   \* outcome of cleanupTempFile on the success path
    catchUnlink,   \* outcome of cleanupTempFile in the catch block
    exitCode,      \* -1 while running, then the process exit code
    before,        \* comparison engine: inspect snapshot before optimisation
    after,         \* comparison engine: inspect snapshot after optimisation
    cmpOptions,    \* comparison engine: {draco, ktx2}
    analysis,      \* comparison engine: result of analyzeComparison
    cmpPc,         \* comparison engine: position
    report         \* lines printComparisonReport wrote, NoReport before it ran

orchVars == <<pc, options, toolAvailable, files, written, trace, fatal, log,
              stageUnlink, catchUnlink, exitCode>>
cmpVars == <<before, after, cmpOptions, analysis, cmpPc, report>>
vars == <<pc, options, toolAvailable, files, written, trace, fatal, log,
          stageUnlink, catchUnlink, exitCode,
          before, after, cmpOptions, analysis, cmpPc, report>>

(***************************************************************************)
(* Paths.  A path is a record [dir, base]; path.join(path.dirname(p), n)   *)
(* is [dir |-> p.dir, base |-> n].                                         *)
(***************************************************************************)
Path(d, b) == [dir |-> d, base |-> b]

InputFBX == Path("in", "model.fbx")

\* --output not given: a falsy value
NoOutput == Path("", "")

\* values of --output: absent, an ordinary name, the fixed transient name
OutputOptions == {NoOutput, Path("out", "scene.glb"), Path("out", "temp_raw.glb")}

\* path.join(inputDir, `${baseName}_${Date.now()}.glb`)
DefaultOutput(inputFBX) == Path(inputFBX.dir, "model_1700000000000.glb")

parseFilePaths(inputFBX, outputOption) ==
    LET outputGLB == IF outputOption # NoOutput THEN outputOption ELSE DefaultOutput(inputFBX)
    IN  [inputFBX  |-> inputFBX,
         outputGLB |-> outputGLB,
         tempGLB   |-> Path(outputGLB.dir, "temp_raw.glb")]

paths == parseFilePaths(InputFBX, options.output)
inputFBX == paths.inputFBX
outputGLB == paths.outputGLB
tempGLB == paths.tempGLB
beforeFile == Path(outputGLB.dir, "inspect_before.json")
afterFile == Path(outputGLB.dir, "inspect_after.json")
comparisonFile == Path(outputGLB.dir, "comparison.json")

(***************************************************************************)
(* cleanupTempFile(filePath): existsSync, then unlinkSync in a try/catch.  *)
(* unlinkOk is the environment's answer to the unlink.  Returns the new    *)
(* set of files, the boolean the function returns and what happened.       *)
(***************************************************************************)
cleanupTempFile_Raises(fs, filePath, unlinkOk) ==
    IF filePath \in fs
    THEN IF unlinkOk
         THEN [files |-> fs \ {filePath}, result |-> TRUE, outcome |-> "deleted", raised |-> FALSE]
         ELSE [files |-> fs, result |-> FALSE, outcome |-> "failed", raised |-> TRUE]
    ELSE [files |-> fs, result |-> FALSE, outcome |-> "absent", raised |-> FALSE]

cleanupTempFile_KeepsFile(fs, filePath, unlinkOk) ==
    IF filePath \in fs
    THEN [files |-> fs, result |-> TRUE, outcome |-> "deleted", raised |-> FALSE]
    ELSE [files |-> fs, result |-> FALSE, outcome |-> "absent", raised |-> FALSE]

cleanupTempFile(fs, filePath, unlinkOk) ==
    IF filePath \in fs
    THEN IF unlinkOk
         THEN [files |-> fs \ {filePath}, result |-> TRUE, outcome |-> "deleted", raised |-> FALSE]
         ELSE [files |-> fs, result |-> FALSE, outcome |-> "failed", raised |-> FALSE]
    ELSE [files |-> fs, result |-> FALSE, outcome |-> "absent", raised |-> FALSE]

(***************************************************************************)
(* The transforms of the two transform stages, in the order they are       *)
(* handed to document.transform.                                           *)
(***************************************************************************)
optimizeSceneTransforms == <<"weld", "prune", "dedup">>

applyCompressionTransforms_KtxFirst(opts) ==
    IF ~opts.draco /\ ~opts.ktx2
    THEN <<>>
    ELSE (IF opts.ktx2 THEN <<"ktx2">> ELSE <<>>) \o (IF opts.draco THEN <<"draco">> ELSE <<>>)

applyCompressionTransforms(opts) ==
    IF ~opts.draco /\ ~opts.ktx2
    THEN <<>>
    ELSE (IF opts.draco THEN <<"draco">> ELSE <<>>) \o (IF opts.ktx2 THEN <<"ktx2">> ELSE <<>>)

\* document.transform(t1, ..., tk) where the first n transforms succeed:
\* the transforms attempted are the first n, and the failing one if n < k.
Attempted(ts, n) == SubSeq(ts, 1, IF n < Len(ts) THEN n + 1 ELSE Len(ts))

(***************************************************************************)
(* main: the awaited calls of the try block, in program order.  A stage    *)
(* that returns hands control to the next one; a stage that throws hands   *)
(* control to the catch block.                                             *)
(***************************************************************************)
mainStages_ReportBeforeCleanup ==
    <<"convert", "init", "read", "snapshot", "optimize", "compress",
      "write", "report", "cleanup", "summary">>

mainStages_ReportBeforeWrite ==
    <<"convert", "init", "read", "snapshot", "optimize", "compress",
      "report", "write", "cleanup", "summary">>

mainStages ==
    <<"convert", "init", "read", "snapshot", "optimize", "compress",
      "write", "cleanup", "report", "summary">>

IndexOf(seq, x) == CHOOSE i \in 1..Len(seq) : seq[i] = x

After(stage) ==
    LET i == IndexOf(mainStages, stage)
    IN  IF i < Len(mainStages) THEN mainStages[i + 1] ELSE "exit"

OnThrow_Continue(nextPc) == nextPc

OnThrow(nextPc) == "catch"

NoError == [kind |-> "none", stage |-> "none"]
Error(k, s) == [kind |-> k, stage |-> s]
Wrote(p, stage) == [path |-> p, by |-> stage]

\* the state of the comparison engine while the orchestrator runs
NoRegistry == -1
NoAnalysis == [done |-> FALSE]
NoReport == [printed |-> FALSE]
EmptySnapshot ==
    [meshes |-> <<>>, upload |-> 0, materials |-> <<>>, registry |-> NoRegistry, animations |-> 0]
CmpIdle ==
    /\ before = EmptySnapshot
    /\ after = EmptySnapshot
    /\ cmpOptions = [draco |-> FALSE, ktx2 |-> FALSE]
    /\ analysis = NoAnalysis
    /\ cmpPc = "idle"
    /\ report = NoReport

Init ==
    /\ pc = "checkTool"
    /\ options \in [draco : BOOLEAN, ktx2 : BOOLEAN, output : OutputOptions]
    /\ toolAvailable \in BOOLEAN
    /\ \E inputExists \in BOOLEAN, staleTemp \in BOOLEAN :
          files = (IF inputExists THEN {InputFBX} ELSE {})
                    \cup (IF staleTemp THEN {tempGLB} ELSE {})
    /\ written = {}
    /\ trace = <<>>
    /\ fatal = NoError
    /\ log = <<>>
    /\ stageUnlink = "none"
    /\ catchUnlink = "none"
    /\ exitCode = -1
    /\ CmpIdle

\* if (!checkFBX2glTF()) { ...; process.exit(1) }
CheckTool ==
    /\ pc = "checkTool"
    /\ IF toolAvailable
       THEN /\ pc' = "validate"
            /\ UNCHANGED <<fatal, exitCode>>
       ELSE /\ fatal' = Error("ToolUnavailableError", "checkTool")
            /\ exitCode' = 1
            /\ pc' = "exit"
    /\ UNCHANGED <<options, toolAvailable, files, written, trace, log,
                   stageUnlink, catchUnlink>>
    /\ UNCHANGED cmpVars

\* try { validateInputFile(inputFBX) } catch { ...; process.exit(1) }
ValidateInput ==
    /\ pc = "validate"
    /\ IF inputFBX \in files
       THEN /\ pc' = mainStages[1]
            /\ UNCHANGED <<fatal, exitCode>>
       ELSE /\ fatal' = Error("InputNotFoundError", "validate")
            /\ exitCode' = 1
            /\ pc' = "exit"
    /\ UNCHANGED <<options, toolAvailable, files, written, trace, log,
                   stageUnlink, catchUnlink>>
    /\ UNCHANGED cmpVars

\* convertFBXToGLB(inputFBX, tempGLB): execSync of the converter.  A failing
\* converter may or may not leave a file at the transient path.
Convert ==
    /\ pc = "convert"
    /\ trace' = Append(trace, "convert")
    /\ \E ok \in BOOLEAN, created \in BOOLEAN :
          IF ok
          THEN /\ files' = files \cup {tempGLB}
               /\ written' = written \cup {Wrote(tempGLB, "convert")}
               /\ pc' = After("convert")
               /\ UNCHANGED fatal
          ELSE /\ files' = IF created THEN files \cup {tempGLB} ELSE files
               /\ fatal' = Error("ConversionError", "convert")
               /\ pc' = OnThrow(After("convert"))
               /\ UNCHANGED written
    /\ UNCHANGED <<options, toolAvailable, log, stageUnlink, catchUnlink, exitCode>>
    /\ UNCHANGED cmpVars

\* initGLTFTransform(): register the extensions and load the codec modules
InitGLTFTransform ==
    /\ pc = "init"
    /\ trace' = Append(trace, "init")
    /\ \E ok \in BOOLEAN :
          IF ok
          THEN /\ pc' = After("init")
               /\ UNCHANGED fatal
          ELSE /\ fatal' = Error("LoadError", "init")
               /\ pc' = OnThrow(After("init"))
    /\ UNCHANGED <<options, toolAvailable, files, written, log,
                   stageUnlink, catchUnlink, exitCode>>
    /\ UNCHANGED cmpVars

\* readGLBDocument(io, tempGLB): io.read fails when the file is absent or
\* does not parse.
ReadGLBDocument ==
    /\ pc = "read"
    /\ trace' = Append(trace, "read")
    /\ \E ok \in BOOLEAN :
          IF ok /\ tempGLB \in files
          THEN /\ pc' = After("read")
               /\ UNCHANGED fatal
          ELSE /\ fatal' = Error("LoadError", "read")
               /\ pc' = OnThrow(After("read"))
    /\ UNCHANGED <<options, toolAvailable, files, written, log,
                   stageUnlink, catchUnlink, exitCode>>
    /\ UNCHANGED cmpVars

\* inspectDocument(document); saveInspectData(beforeInspect, beforeFile)
SnapshotBefore ==
    /\ pc = "snapshot"
    /\ trace' = trace \o <<"inspect_before", "save_before">>
    /\ \E ok \in BOOLEAN :
          IF ok
          THEN /\ files' = files \cup {beforeFile}
               /\ written' = written \cup {Wrote(beforeFile, "save_before")}
               /\ pc' = After("snapshot")
               /\ UNCHANGED fatal
          ELSE /\ fatal' = Error("IOError", "save_before")
               /\ pc' = OnThrow(After("snapshot"))
               /\ UNCHANGED <<files, written>>
    /\ UNCHANGED <<options, toolAvailable, log, stageUnlink, catchUnlink, exitCode>>
    /\ UNCHANGED cmpVars

\* optimizeScene(document): document.transform(weld, prune, dedup)
OptimizeScene ==
    /\ pc = "optimize"
    /\ \E n \in 0..Len(optimizeSceneTransforms) :
          /\ trace' = trace \o Attempted(optimizeSceneTransforms, n)
          /\ IF n = Len(optimizeSceneTransforms)
             THEN /\ pc' = After("optimize")
                  /\ UNCHANGED fatal
             ELSE /\ fatal' = Error("TransformError", optimizeSceneTransforms[n + 1])
                  /\ pc' = OnThrow(After("optimize"))
    /\ UNCHANGED <<options, toolAvailable, files, written, log,
                   stageUnlink, catchUnlink, exitCode>>
    /\ UNCHANGED cmpVars

\* applyCompression(document, options)
ApplyCompression ==
    /\ pc = "compress"
    /\ LET ts == applyCompressionTransforms(options)
       IN  \E n \in 0..Len(ts) :
             /\ trace' = trace \o Attempted(ts, n)
             /\ IF n = Len(ts)
                THEN /\ pc' = After("compress")
                     /\ UNCHANGED fatal
                ELSE /\ fatal' = Error("TransformError", ts[n + 1])
                     /\ pc' = OnThrow(After("compress"))
    /\ UNCHANGED <<options, toolAvailable, files, written, log,
                   stageUnlink, catchUnlink, exitCode>>
    /\ UNCHANGED cmpVars

\* writeGLB(io, document, outputGLB)
WriteGLB ==
    /\ pc = "write"
    /\ trace' = Append(trace, "write")
    /\ \E ok \in BOOLEAN :
          IF ok
          THEN /\ files' = files \cup {outputGLB}
               /\ written' = written \cup {Wrote(outputGLB, "write")}
               /\ pc' = After("write")
               /\ UNCHANGED fatal
          ELSE /\ fatal' = Error("WriteError", "write")
               /\ pc' = OnThrow(After("write"))
               /\ UNCHANGED <<files, written>>
    /\ UNCHANGED <<options, toolAvailable, log, stageUnlink, catchUnlink, exitCode>>
    /\ UNCHANGED cmpVars

\* if (cleanupTempFile(tempGLB)) { logInfo('临时文件已清理', ...) }
CleanupTransient ==
    /\ pc = "cleanup"
    /\ trace' = Append(trace, "cleanup_temp")
    /\ \E unlinkOk \in BOOLEAN :
          LET r == cleanupTempFile(files, tempGLB, unlinkOk)
          IN  /\ files' = r.files
              /\ stageUnlink' = r.outcome
              /\ log' = IF r.result THEN Append(log, "temp_cleaned") ELSE log
              /\ IF r.raised
                 THEN /\ fatal' = Error("CleanupError", "cleanup_temp")
                      /\ pc' = OnThrow(After("cleanup"))
                 ELSE /\ pc' = After("cleanup")
                      /\ UNCHANGED fatal
    /\ UNCHANGED <<options, toolAvailable, written, catchUnlink, exitCode>>
    /\ UNCHANGED cmpVars

\* generateReport(document, outputGLB, beforeInspect, options)
GenerateReport ==
    /\ pc = "report"
    /\ \E outcome \in {"ok", "after_fails", "comparison_fails"} :
          \/ /\ outcome = "after_fails"
             /\ trace' = trace \o <<"inspect_after", "save_after">>
             /\ fatal' = Error("IOError", "save_after")
             /\ pc' = OnThrow(After("report"))
             /\ UNCHANGED <<files, written>>
          \/ /\ outcome = "comparison_fails"
             /\ trace' = trace \o <<"inspect_after", "save_after",
                                     "comparison", "save_comparison">>
             /\ files' = files \cup {afterFile}
             /\ written' = written \cup {Wrote(afterFile, "save_after")}
             /\ fatal' = Error("IOError", "save_comparison")
             /\ pc' = OnThrow(After("report"))
          \/ /\ outcome = "ok"
             /\ trace' = trace \o <<"inspect_after", "save_after",
                                     "comparison", "save_comparison", "print_report">>
             /\ files' = files \cup {afterFile, comparisonFile}
             /\ written' = written \cup {Wrote(afterFile, "save_after"),
                                          Wrote(comparisonFile, "save_comparison")}
             /\ pc' = After("report")
             /\ UNCHANGED fatal
    /\ UNCHANGED <<options, toolAvailable, log, stageUnlink, catchUnlink, exitCode>>
    /\ UNCHANGED cmpVars

\* showSummary(inputFBX, outputGLB, startTime); process.exit(0).
\* showSummary stats both files: fs.statSync throws on a missing file.
Summary ==
    /\ pc = "summary"
    /\ trace' = Append(trace, "summary")
    /\ IF inputFBX \in files /\ outputGLB \in files
       THEN /\ exitCode' = 0
            /\ pc' = "exit"
            /\ UNCHANGED fatal
       ELSE /\ fatal' = Error("SummaryError", "summary")
            /\ pc' = OnThrow("exit")
            /\ UNCHANGED exitCode
    /\ UNCHANGED <<options, toolAvailable, files, written, log,
                   stageUnlink, catchUnlink>>
    /\ UNCHANGED cmpVars

\* catch (err) { showError(err); cleanupTempFile(tempGLB); process.exit(1) }
catchBlock_NoCleanup(fs, unlinkOk) ==
    [files |-> fs, events |-> <<>>, outcome |-> "none", code |-> 1]

catchBlock(fs, unlinkOk) ==
    LET r == cleanupTempFile(fs, tempGLB, unlinkOk)
    IN  [files |-> r.files, events |-> <<"catch_cleanup">>, outcome |-> r.outcome, code |-> 1]

Catch ==
    /\ pc = "catch"
    /\ \E unlinkOk \in BOOLEAN :
          LET c == catchBlock(files, unlinkOk)
          IN  /\ files' = c.files
              /\ trace' = trace \o c.events
              /\ catchUnlink' = c.outcome
              /\ exitCode' = c.code
    /\ pc' = "exit"
    /\ UNCHANGED <<options, toolAvailable, written, fatal, log, stageUnlink>>
    /\ UNCHANGED cmpVars

(***************************************************************************)
(* The comparison engine (lib/compare.js).                                 *)
(*                                                                         *)
(* An inspect snapshot is                                                  *)
(*   meshes     : the mesh records [vertices, size, uv], uv saying that    *)
(*                some attribute name starts with TEXCOORD;                *)
(*   upload     : scenes.properties[0].uploadVertexCount, 0 when absent;   *)
(*   materials  : per material, the length of its textures array;          *)
(*   registry   : the length of textures.properties, NoRegistry if absent; *)
(*   animations : the length of animations.properties.                     *)
(*                                                                         *)
(* Numbers are JavaScript doubles; the counts here are small integers, so  *)
(* sums and differences are exact, and a quotient n/d is kept as the pair  *)
(* (n, d) until it is formatted.                                           *)
(***************************************************************************)
MaxMeshes == 3
MaxMaterials == 2

\* the mesh records the snapshots are built from
MeshPool ==
    << [vertices |-> 0,    size |-> 0,    uv |-> TRUE],
       [vertices |-> 1,    size |-> 2001, uv |-> TRUE],
       [vertices |-> 2001, size |-> 1,    uv |-> FALSE] >>
UploadCounts == {0, 7}
TextureRefs == {0, 1}
Registries == {NoRegistry, 0, 2}
AnimationCounts == {0, 1}

\* The engine only sums and counts over a list, so one list per multiset is
\* enough: the non-decreasing sequences over 1..n of length at most k.
SortedSeqsUpTo(n, k) ==
    UNION {{s \in [1..len -> 1..n] : \A i \in 1..(len - 1) : s[i] <= s[i + 1]} : len \in 0..k}

MeshLists ==
    {[i \in 1..Len(s) |-> MeshPool[s[i]]] : s \in SortedSeqsUpTo(Len(MeshPool), MaxMeshes)}

MaterialLists ==
    {[i \in 1..Len(s) |-> s[i] - 1] : s \in SortedSeqsUpTo(Cardinality(TextureRefs), MaxMaterials)}

Snapshot(ms, u, mats, reg, an) ==
    [meshes |-> ms, upload |-> u, materials |-> mats, registry |-> reg, animations |-> an]

\* snapshots that vary in their geometry
GeometrySnapshots ==
    {Snapshot(ms, u, <<>>, NoRegistry, 0) : ms \in MeshLists, u \in UploadCounts}

\* snapshots that vary in their materials, textures and animations
ResourceSnapshots ==
    {Snapshot(ms, 0, mats, reg, an) :
        ms \in {<<>>, <<MeshPool[2]>>},
        mats \in MaterialLists,
        reg \in Registries,
        an \in AnimationCounts}

Snapshots == GeometrySnapshots \cup ResourceSnapshots

CompareOptions == [draco : BOOLEAN, ktx2 : BOOLEAN]

RECURSIVE SumOver(_, _)
\* array.reduce((sum, x) => sum + f(x), 0), f given as the sequence of its values
SumOver(vals, n) == IF n = 0 THEN 0 ELSE SumOver(vals, n - 1) + vals[n]

\* a || b on numbers
JsOr(a, b) == IF a # 0 THEN a ELSE b

Abs(x) == IF x < 0 THEN -x ELSE x
Pow10(k) == 10 ^ k

(***************************************************************************)
(* The text of a number.  kind "fixed": [-]whole.frac with `digits`        *)
(* fraction digits (frac is the integer the digits spell); kind "int":    *)
(* the digits of whole; kind "Infinity": the text Infinity.                *)
(***************************************************************************)
NumText(k, neg, whole, frac, digits) ==
    [kind |-> k, neg |-> neg, whole |-> whole, frac |-> frac, digits |-> digits]
Literal(n) == NumText("int", FALSE, n, 0, 0)

\* Number.prototype.toFixed(digits) of the quotient n/d (d >= 0): the sign is
\* that of the number, the magnitude is rounded to the nearest multiple of
\* 10^-digits, the larger one on a tie.  n/0 is Infinity, -Infinity or NaN.
toFixed_Truncating(n, d, digits) ==
    IF d = 0
    THEN NumText(IF n = 0 THEN "NaN" ELSE "Infinity", n < 0, 0, 0, 0)
    ELSE LET scaled == (Abs(n) * Pow10(digits)) \div d
         IN  NumText("fixed", n < 0, scaled \div Pow10(digits), scaled % Pow10(digits), digits)

toFixed(n, d, digits) ==
    IF d = 0
    THEN NumText(IF n = 0 THEN "NaN" ELSE "Infinity", n < 0, 0, 0, 0)
    ELSE LET scaled == (2 * Abs(n) * Pow10(digits) + d) \div (2 * d)
         IN  NumText("fixed", n < 0, scaled \div Pow10(digits), scaled % Pow10(digits), digits)

\* a template string `${num}${suffix}`; tag is the word after the percent
\* sign: "" (none), "DELETED" for the word meaning deleted, "ADDED" for the
\* word meaning added.
Text(num, tag) == [num |-> num, unit |-> "%", tag |-> tag]

getTotalVertices(inspect) ==
    SumOver([i \in 1..Len(inspect.meshes) |-> JsOr(inspect.meshes[i].vertices, 0)],
            Len(inspect.meshes))

countMeshesWithUV(inspect) ==
    Cardinality({i \in 1..Len(inspect.meshes) : inspect.meshes[i].uv})

getMeshCount(inspect) == JsOr(Len(inspect.meshes), 0)

getTotalGeometrySize(inspect) ==
    SumOver([i \in 1..Len(inspect.meshes) |-> JsOr(inspect.meshes[i].size, 0)],
            Len(inspect.meshes))

getMaterialCount(inspect) == JsOr(Len(inspect.materials), 0)

countTextures_IgnoresRegistry(inspect) ==
    SumOver(inspect.materials, Len(inspect.materials))

countTextures(inspect) ==
    IF inspect.registry # NoRegistry
    THEN inspect.registry
    ELSE SumOver(inspect.materials, Len(inspect.materials))

getUploadVertexCount(inspect) == JsOr(inspect.upload, 0)

analyzeVertices_SharedFallback(b, a) ==
    LET useUpload == getUploadVertexCount(b) # 0
        beforeVertices == IF useUpload THEN getUploadVertexCount(b) ELSE getTotalVertices(b)
        afterVertices == IF useUpload THEN getUploadVertexCount(a) ELSE getTotalVertices(a)
        diff == afterVertices - beforeVertices
        percent == IF beforeVertices > 0
                   THEN toFixed(diff * 100, beforeVertices, 1)
                   ELSE NumText("fixed", FALSE, 0, 0, 1)
    IN  [before |-> beforeVertices, after |-> afterVertices, diff |-> diff,
         percent |-> Text(percent, "")]

analyzeVertices(b, a) ==
    LET beforeVertices == JsOr(getUploadVertexCount(b), getTotalVertices(b))
        afterVertices == JsOr(getUploadVertexCount(a), getTotalVertices(a))
        diff == afterVertices - beforeVertices
        percent == IF beforeVertices > 0
                   THEN toFixed(diff * 100, beforeVertices, 1)
                   ELSE NumText("fixed", FALSE, 0, 0, 1)
    IN  [before |-> beforeVertices, after |-> afterVertices, diff |-> diff,
         percent |-> Text(percent, "")]

analyzeUV_GuardedAdd(b, a) ==
    LET beforeUVCount == countMeshesWithUV(b)
        afterUVCount == countMeshesWithUV(a)
        change ==
            IF beforeUVCount > 0 /\ afterUVCount = 0
            THEN Text(Literal(100), "DELETED")
            ELSE IF beforeUVCount > 0 /\ afterUVCount < beforeUVCount
            THEN Text(toFixed((beforeUVCount - afterUVCount) * 100, beforeUVCount, 1), "DELETED")
            ELSE IF beforeUVCount > 0 /\ afterUVCount > beforeUVCount
            THEN Text(toFixed((afterUVCount - beforeUVCount) * 100, beforeUVCount, 1), "ADDED")
            ELSE Text(Literal(0), "")
    IN  [before |-> beforeUVCount, after |-> afterUVCount,
         totalMeshes |-> getMeshCount(b), change |-> change]

analyzeUV(b, a) ==
    LET beforeUVCount == countMeshesWithUV(b)
        afterUVCount == countMeshesWithUV(a)
        change ==
            IF beforeUVCount > 0 /\ afterUVCount = 0
            THEN Text(Literal(100), "DELETED")
            ELSE IF beforeUVCount > 0 /\ afterUVCount < beforeUVCount
            THEN Text(toFixed((beforeUVCount - afterUVCount) * 100, beforeUVCount, 1), "DELETED")
            ELSE IF afterUVCount > beforeUVCount
            THEN Text(toFixed((afterUVCount - beforeUVCount) * 100, beforeUVCount, 1), "ADDED")
            ELSE Text(Literal(0), "")
    IN  [before |-> beforeUVCount, after |-> afterUVCount,
         totalMeshes |-> getMeshCount(b), change |-> change]

MB == 1024 * 1024

analyzeGeometry(b, a) ==
    LET beforeSize == getTotalGeometrySize(b)
        afterSize == getTotalGeometrySize(a)
        diff == afterSize - beforeSize
        percent == IF beforeSize > 0
                   THEN toFixed(diff * 100, beforeSize, 1)
                   ELSE NumText("fixed", FALSE, 0, 0, 1)
    IN  [before |-> beforeSize, after |-> afterSize,
         beforeMB |-> toFixed(beforeSize, MB, 2),
         afterMB |-> toFixed(afterSize, MB, 2),
         diff |-> diff,
         diffMB |-> toFixed(diff, MB, 2),
         percent |-> Text(percent, "")]

analyzeMaterials_DedupOnEqual(b, a) ==
    LET beforeCount == getMaterialCount(b)
        afterCount == getMaterialCount(a)
        diff == afterCount - beforeCount
    IN  [before |-> beforeCount, after |-> afterCount, diff |-> diff,
         reason |-> IF diff <= 0 THEN "(dedup)" ELSE "(increase)"]

analyzeMaterials(b, a) ==
    LET beforeCount == getMaterialCount(b)
        afterCount == getMaterialCount(a)
        diff == afterCount - beforeCount
    IN  [before |-> beforeCount, after |-> afterCount, diff |-> diff,
         reason |-> IF diff < 0 THEN "(dedup)" ELSE IF diff > 0 THEN "(increase)" ELSE ""]

analyzeAnimations(b, a) ==
    LET beforeAnimations == JsOr(b.animations, 0)
        afterAnimations == JsOr(a.animations, 0)
    IN  [before |-> beforeAnimations, after |-> afterAnimations,
         preserved |-> beforeAnimations = afterAnimations /\ beforeAnimations > 0]

analyzeTextures(b, a, opts) ==
    LET beforeTextures == countTextures(b)
        afterTextures == countTextures(a)
        hasTextures == beforeTextures > 0 \/ afterTextures > 0
        ktx2Status == IF opts.ktx2
                      THEN (IF hasTextures THEN "applied" ELSE "not applicable")
                      ELSE (IF hasTextures THEN "not enabled" ELSE "not applicable")
    IN  [before |-> beforeTextures, after |-> afterTextures,
         hasTextures |-> hasTextures, ktx2Status |-> ktx2Status]

\* a highlight string: the message and the numbers interpolated into it
Highlight(msg, args) == [msg |-> msg, args |-> args]

generateHighlights_DracoFirst(an, opts) ==
    (IF opts.draco THEN <<Highlight("Draco geometry compression applied", <<>>)>> ELSE <<>>)
    \o (IF an.uv.change.tag = "DELETED"
        THEN <<Highlight("volume drop mainly from prune deleting unused UV", <<>>)>>
        ELSE <<>>)
    \o (IF an.materials.diff < 0
        THEN <<Highlight("materials reduced by dedup from _ to _",
                         <<an.materials.before, an.materials.after>>)>>
        ELSE <<>>)
    \o (IF opts.ktx2 /\ an.textures.hasTextures
        THEN <<Highlight("KTX2 texture compression applied", <<>>)>>
        ELSE <<>>)

generateHighlights(an, opts) ==
    (IF an.uv.change.tag = "DELETED"
     THEN <<Highlight("volume drop mainly from prune deleting unused UV", <<>>)>>
     ELSE <<>>)
    \o (IF an.materials.diff < 0
        THEN <<Highlight("materials reduced by dedup from _ to _",
                         <<an.materials.before, an.materials.after>>)>>
        ELSE <<>>)
    \o (IF opts.draco THEN <<Highlight("Draco geometry compression applied", <<>>)>> ELSE <<>>)
    \o (IF opts.ktx2 /\ an.textures.hasTextures
        THEN <<Highlight("KTX2 texture compression applied", <<>>)>>
        ELSE <<>>)

analyzeComparison(beforeInspect, afterInspect, opts) ==
    LET an == [vertices |-> analyzeVertices(beforeInspect, afterInspect),
               uv |-> analyzeUV(beforeInspect, afterInspect),
               geometry |-> analyzeGeometry(beforeInspect, afterInspect),
               materials |-> analyzeMaterials(beforeInspect, afterInspect),
               animations |-> analyzeAnimations(beforeInspect, afterInspect),
               textures |-> analyzeTextures(beforeInspect, afterInspect, opts),
               highlights |-> <<>>]
    IN  [an EXCEPT !.highlights = generateHighlights(an, opts)]

\* parseFloat(text): the number spelled by the longest numeric prefix of the
\* text; scaled / 10^digits is its magnitude.
parseFloat(text) ==
    [kind   |-> IF text.num.kind \in {"fixed", "int"} THEN "finite" ELSE text.num.kind,
     neg    |-> text.num.neg,
     scaled |-> text.num.whole * Pow10(text.num.digits) + text.num.frac,
     digits |-> text.num.digits]

\* Math.abs(x) < 0.1; false for NaN and for the infinities
AbsBelowTenth(x) == x.kind = "finite" /\ x.scaled * 10 < Pow10(x.digits)

\* text.startsWith(ch) for ch a sign character: a number text begins with
\* '-' when the number is negative and never begins with '+'
startsWith(text, ch) ==
    IF ch = "-" THEN text.num.kind # "NaN" /\ text.num.neg ELSE FALSE

\* chalk.<color>(text)
chalk(color, text) == [color |-> color, text |-> text]

\* one record per line written: the vertex, UV, geometry, material, animation
\* and texture lines, then the highlight bullets.  Tags stand for the words
\* of the report: "CHANGE" (0% change), "ADDED" (increase), "REDUCED".
printComparisonReport(an) ==
    LET vertexPercent == parseFloat(an.vertices.percent)
        vertexChange ==
            IF AbsBelowTenth(vertexPercent)
            THEN chalk("gray", Text(Literal(0), "CHANGE"))
            ELSE IF an.vertices.diff > 0
                 THEN chalk("yellow", Text(an.vertices.percent.num, "ADDED"))
                 ELSE chalk("green", Text(an.vertices.percent.num, "REDUCED"))
        uvChange ==
            IF an.uv.change.tag = "DELETED"
            THEN chalk("green", an.uv.change)
            ELSE IF an.uv.change.tag = "ADDED"
                 THEN chalk("yellow", an.uv.change)
                 ELSE chalk("gray", an.uv.change)
        geometryChange ==
            IF startsWith(an.geometry.percent, "-")
            THEN chalk("green", an.geometry.percent)
            ELSE IF startsWith(an.geometry.percent, "+")
                 THEN chalk("yellow", an.geometry.percent)
                 ELSE chalk("gray", an.geometry.percent)
        materialText ==
            [before |-> an.materials.before, after |-> an.materials.after,
             note |-> IF an.materials.diff = 0
                      THEN chalk("plain", "(no change)")
                      ELSE chalk("cyan", an.materials.reason)]
        animStatus ==
            IF an.animations.before > 0
            THEN IF an.animations.preserved
                 THEN chalk("green", "fully kept")
                 ELSE chalk("yellow", "partly kept")
            ELSE chalk("gray", "no animation data")
        textureStatus ==
            IF ~an.textures.hasTextures
            THEN chalk("gray", "no textures, KTX2 not applicable")
            ELSE IF an.textures.ktx2Status = "applied"
                 THEN chalk("green", an.textures.ktx2Status)
                 ELSE chalk("yellow", an.textures.ktx2Status)
    IN  [printed |-> TRUE,
         vertexChange |-> vertexChange,
         uvChange |-> uvChange,
         geometryChange |-> geometryChange,
         materialText |-> materialText,
         animStatus |-> animStatus,
         textureStatus |-> textureStatus,
         highlights |-> an.highlights]

\* the orchestrator is not running while the engine is exercised
OrchIdle ==
    /\ pc = "idle"
    /\ options = [draco |-> FALSE, ktx2 |-> FALSE, output |-> NoOutput]
    /\ toolAvailable = TRUE
    /\ files = {}
    /\ written = {}
    /\ trace = <<>>
    /\ fatal = NoError
    /\ log = <<>>
    /\ stageUnlink = "none"
    /\ catchUnlink = "none"
    /\ exitCode = -1

CmpInit ==
    /\ OrchIdle
    /\ before \in Snapshots
    /\ after \in Snapshots
    /\ cmpOptions = [draco |-> FALSE, ktx2 |-> FALSE]
    /\ analysis = NoAnalysis
    /\ cmpPc = "ready"
    /\ report = NoReport

\* analyzeComparison(beforeInspect, afterInspect, {draco, ktx2})
Analyze ==
    /\ cmpPc = "ready"
    /\ \E opts \in CompareOptions :
          /\ cmpOptions' = opts
          /\ analysis' = analyzeComparison(before, after, opts)
    /\ cmpPc' = "analyzed"
    /\ UNCHANGED <<before, after, report>>
    /\ UNCHANGED orchVars

\* printComparisonReport(analysis), called right after analyzeComparison
PrintReport ==
    /\ cmpPc = "analyzed"
    /\ report' = printComparisonReport(analysis)
    /\ cmpPc' = "printed"
    /\ UNCHANGED <<before, after, cmpOptions, analysis>>
    /\ UNCHANGED orchVars

CmpNext == Analyze \/ PrintReport

CmpSpec == CmpInit /\ [][CmpNext]_vars

Next ==
    \/ CheckTool
    \/ ValidateInput
    \/ Convert
    \/ InitGLTFTransform
    \/ ReadGLBDocument
    \/ SnapshotBefore
    \/ OptimizeScene
    \/ ApplyCompression
    \/ WriteGLB
    \/ CleanupTransient
    \/ GenerateReport
    \/ Summary
    \/ Catch

Spec == Init /\ [][Next]_vars

(***************************************************************************)
(* Properties of the orchestrator (checked under Spec).                    *)
(***************************************************************************)
Range(seq) == {seq[i] : i \in 1..Len(seq)}
\* position of the first occurrence of x in seq, 0 if there is none
Pos(seq, x) == IF x \in Range(seq) THEN IndexOf(seq, x) ELSE 0
NoDuplicates(seq) == \A i, j \in 1..Len(seq) : seq[i] = seq[j] => i = j
Happened(e) == e \in Range(trace)
Precedes(e1, e2) == Happened(e1) /\ Happened(e2) /\ Pos(trace, e1) < Pos(trace, e2)
WrittenBy(stage) == \E w \in written : w.by = stage

TransformNames == {"weld", "prune", "dedup", "draco", "ktx2"}
ReportEvents == {"inspect_after", "save_after", "comparison", "save_comparison", "print_report"}
Taxonomy == {"ToolUnavailableError", "InputNotFoundError", "ConversionError", "LoadError",
             "TransformError", "WriteError", "IOError"}
PreFlightErrors == {"ToolUnavailableError", "InputNotFoundError"}

StagesUntilWrite ==
    <<"convert", "init", "read", "inspect_before", "save_before", "weld", "prune", "dedup">>
    \o (IF options.draco THEN <<"draco">> ELSE <<>>)
    \o (IF options.ktx2 THEN <<"ktx2">> ELSE <<>>)
    \o <<"write">>

\* C1: once the write stage has been reached, the stages run so far are
\* exactly convert, load (init, read), before-snapshot (inspect, save), weld,
\* prune, dedup, draco iff --draco, ktx2 iff --ktx2 (after draco), write, in
\* this order; no stage ran twice and no transform runs after the write.
C1_StageOrder ==
    Happened("write") =>
        /\ Len(trace) >= Len(StagesUntilWrite)
        /\ SubSeq(trace, 1, Len(StagesUntilWrite)) = StagesUntilWrite
        /\ NoDuplicates(trace)
        /\ \A i \in 1..Len(trace) : i > Len(StagesUntilWrite) => trace[i] \notin TransformNames

C1_Witness ==
    /\ pc = "exit" /\ exitCode = 0
    /\ options.draco /\ options.ktx2
    /\ Precedes("draco", "ktx2") /\ Precedes("ktx2", "write")

\* C2 as stated: the after-snapshot is captured and persisted before the
\* transient deletion is attempted, and the comparison and report come only
\* after the deletion attempt.
C2_SnapshotBeforeCleanup ==
    /\ Happened("cleanup_temp") => Precedes("save_after", "cleanup_temp")
    /\ \A e \in {"comparison", "save_comparison", "print_report"} :
          Happened(e) => Precedes("cleanup_temp", e)

\* C2 amended: after a successful write the transient deletion is attempted
\* first; the after-snapshot is captured and persisted, and the comparison
\* and report are produced, only after that attempt.
C2_CleanupBeforeSnapshot ==
    /\ \A e \in ReportEvents :
          Happened(e) => /\ Wrote(outputGLB, "write") \in written
                         /\ Precedes("write", "cleanup_temp")
                         /\ Precedes("cleanup_temp", e)
    /\ Happened("cleanup_temp") => Pos(trace, "cleanup_temp") = Pos(trace, "write") + 1

C2_Witness ==
    /\ Happened("save_after") /\ Happened("print_report")
    /\ stageUnlink = "deleted"

\* C3 as stated: every fatal error of the taxonomy ends the run with a
\* non-zero exit code after a deletion of the transient artifact was attempted.
C3_CleanupOnEveryFatalError ==
    (pc = "exit" /\ fatal.kind \in Taxonomy) =>
        /\ exitCode # 0
        /\ Happened("catch_cleanup")

\* C3 amended: every fatal error of the taxonomy ends the run with exit code
\* 1; the deletion of the transient artifact is attempted before the exit for
\* the errors raised inside main (conversion, load, transform, write,
\* side-artifact persistence) and is not attempted for the two pre-flight
\* errors (converter not found, input file missing).
C3_FatalExit ==
    (pc = "exit" /\ fatal.kind \in Taxonomy) =>
        /\ exitCode = 1
        /\ Happened("catch_cleanup") <=> fatal.kind \notin PreFlightErrors
        /\ Happened("catch_cleanup") => catchUnlink \in {"absent", "deleted", "failed"}

C3_Witness ==
    /\ pc = "exit" /\ fatal.kind = "WriteError"
    /\ exitCode = 1 /\ catchUnlink = "deleted"

\* C4: when a transform of the cleanup stage or of a compression stage fails,
\* the write stage is never started: the write stage, the after-snapshot and
\* the comparison record write nothing, and the run exits with a non-zero code.
C4_NoWriteAfterTransformFailure ==
    fatal.kind = "TransformError" =>
        /\ ~Happened("write")
        /\ ~WrittenBy("write") /\ ~WrittenBy("save_after") /\ ~WrittenBy("save_comparison")
        /\ \A e \in ReportEvents : ~Happened(e)
        /\ pc \in {"catch", "exit"}
        /\ pc = "exit" => exitCode = 1

C4_Witness ==
    /\ pc = "exit" /\ fatal = Error("TransformError", "ktx2")
    /\ Happened("draco") /\ exitCode = 1

\* C5 as stated: a side artifact can fail to persist only after the final
\* output was written successfully, and at the resulting exit that output
\* file still exists.
C5_SideArtifactFailureAfterOutput ==
    fatal.kind = "IOError" =>
        /\ Wrote(outputGLB, "write") \in written
        /\ pc = "exit" => (exitCode # 0 /\ outputGLB \in files)

\* C5 amended: a failure to persist the after-snapshot or the comparison
\* record occurs only after the write stage wrote the output; a failure to
\* persist the before-snapshot occurs before the write stage is reached, so
\* no output is written in that run.  The failure handling deletes nothing but
\* the transient path: at the resulting exit (code 1) every file this run
\* wrote at another path, the output among them, still exists.
C5_SideArtifactFailure ==
    fatal.kind = "IOError" =>
        /\ fatal.stage \in {"save_before", "save_after", "save_comparison"}
        /\ fatal.stage \in {"save_after", "save_comparison"} =>
              /\ Wrote(outputGLB, "write") \in written
              /\ Precedes("write", fatal.stage)
        /\ fatal.stage = "save_before" => (~Happened("write") /\ ~WrittenBy("write"))
        /\ pc = "exit" =>
              /\ exitCode = 1
              /\ \A w \in written : w.path # tempGLB => w.path \in files

C5_Witness ==
    /\ pc = "exit" /\ fatal = Error("IOError", "save_after")
    /\ outputGLB # tempGLB /\ outputGLB \in files
    /\ catchUnlink = "failed"

\* C6 as stated: when the converter fails the run exits non-zero, writes no
\* before/after/comparison artifact, and the transient artifact is absent at
\* the exit.
C6_TransientAbsentAfterConversionFailure ==
    (pc = "exit" /\ fatal.kind = "ConversionError") =>
        /\ exitCode # 0
        /\ ~WrittenBy("save_before") /\ ~WrittenBy("save_after") /\ ~WrittenBy("save_comparison")
        /\ tempGLB \notin files

\* C6 amended: when the converter fails the run exits with code 1, writes no
\* before/after/comparison artifact, and attempts the deletion of the
\* transient artifact: at the exit the transient artifact is absent unless
\* that deletion failed (then the file the converter left, or a stale one,
\* remains).
C6_ConversionFailure ==
    (pc = "exit" /\ fatal.kind = "ConversionError") =>
        /\ exitCode = 1
        /\ ~WrittenBy("save_before") /\ ~WrittenBy("save_after") /\ ~WrittenBy("save_comparison")
        /\ trace = <<"convert", "catch_cleanup">>
        /\ tempGLB \in files <=> catchUnlink = "failed"

C6_Witness ==
    /\ pc = "exit" /\ fatal.kind = "ConversionError"
    /\ catchUnlink = "deleted" /\ tempGLB \notin files

\* C7 as stated: the transient clean-up stage never raises, the run goes on
\* to the report stage, the exit code is 0 when everything else succeeded,
\* and a failed deletion is logged.
C7_CleanupFailureLogged ==
    stageUnlink # "none" =>
        /\ fatal.stage # "cleanup_temp"
        /\ pc \in {"report", "summary", "catch", "exit"}
        /\ (pc = "exit" /\ Happened("print_report")) => exitCode = 0
        /\ stageUnlink = "failed" => Len(log) > 0

\* C7 amended: the transient clean-up stage never raises: whether the file is
\* absent, deleted or cannot be deleted, the run goes on to the report stage.
\* Only a successful deletion is logged; a failed deletion logs nothing.  When
\* everything else succeeded the exit code is 0, except that when the output
\* path is the transient path and the deletion succeeded the summary cannot
\* stat the output and the run exits with code 1.
C7_CleanupNeverRaises ==
    /\ fatal.stage # "cleanup_temp"
    /\ stageUnlink # "none" =>
          /\ Happened("cleanup_temp")
          /\ pc \in {"report", "summary", "catch", "exit"}
          /\ Len(trace) > Pos(trace, "cleanup_temp") =>
                trace[Pos(trace, "cleanup_temp") + 1] = "inspect_after"
          /\ log = IF stageUnlink = "deleted" THEN <<"temp_cleaned">> ELSE <<>>
          /\ (pc = "exit" /\ Happened("print_report")) =>
                (exitCode = 0 <=> ~(outputGLB = tempGLB /\ stageUnlink = "deleted"))
    /\ stageUnlink = "none" => log = <<>>

C7_Witness ==
    /\ pc = "exit" /\ exitCode = 0
    /\ stageUnlink = "failed" /\ log = <<>>
    /\ Happened("print_report")

(***************************************************************************)
(* Properties of the comparison engine (checked under CmpSpec).            *)
(***************************************************************************)
Analyzed == cmpPc \in {"analyzed", "printed"}

Sign(x) == IF x > 0 THEN 1 ELSE IF x < 0 THEN -1 ELSE 0

\* the number a text spells, in tenths (texts with one fraction digit or none)
Tenths(num) == (IF num.neg THEN -1 ELSE 1) * (num.whole * 10 + num.frac)
IsFinite(num) == num.kind \in {"fixed", "int"}
ZeroPointZero == NumText("fixed", FALSE, 0, 0, 1)

\* num is the one-decimal text of n/d*100 (d > 0): a minus sign iff n < 0,
\* and the magnitude in tenths is the nearest integer to 1000*|n|/d, the
\* larger one on a tie.
IsOneDecimalPercent(num, n, d) ==
    LET t == num.whole * 10 + num.frac
    IN  /\ num.kind = "fixed" /\ num.digits = 1
        /\ num.neg <=> n < 0
        /\ num.frac \in 0..9
        /\ 2 * t * d <= 2000 * Abs(n) + d
        /\ 2000 * Abs(n) + d < 2 * (t + 1) * d

RECURSIVE CountUV(_)
CountUV(ms) == IF ms = <<>> THEN 0 ELSE (IF Head(ms).uv THEN 1 ELSE 0) + CountUV(Tail(ms))

\* C8: a before-count of zero gives a percentage of exactly zero, "0.0%" for
\* the vertex and geometry-size metrics and a finite zero for the UV change,
\* whatever the after-count; never Infinity or NaN.
C8_ZeroBeforeZeroPercent ==
    Analyzed =>
        /\ analysis.vertices.before = 0 => analysis.vertices.percent = Text(ZeroPointZero, "")
        /\ analysis.geometry.before = 0 => analysis.geometry.percent = Text(ZeroPointZero, "")
        /\ analysis.uv.before = 0 =>
              (IsFinite(analysis.uv.change.num) /\ Tenths(analysis.uv.change.num) = 0)

\* C9 as stated: for the vertex and geometry-size metrics diff = after -
\* before, with before > 0 the percent is diff/before*100 rounded to one
\* decimal, and the sign of the formatted percent is the sign of diff
\* (positive, negative or zero together).
C9_PercentSignMatchesDiff ==
    Analyzed =>
        \A m \in {analysis.vertices, analysis.geometry} :
            /\ m.diff = m.after - m.before
            /\ m.before > 0 =>
                  /\ IsOneDecimalPercent(m.percent.num, m.diff, m.before)
                  /\ Sign(Tenths(m.percent.num)) = Sign(m.diff)

\* C9 amended: for the vertex and geometry-size metrics diff = after - before
\* and, with before > 0, the percent is diff/before*100 rounded to one decimal
\* (half away from zero) with a % suffix.  The text carries a minus sign
\* exactly when diff < 0, and the value it spells has the sign of diff unless
\* it is zero: it is zero exactly when |diff|/before is below 0.05 %, so a
\* non-zero diff that rounds to zero tenths is printed 0.0% or -0.0%.
C9_PercentRounding ==
    Analyzed =>
        \A m \in {analysis.vertices, analysis.geometry} :
            /\ m.diff = m.after - m.before
            /\ m.percent.unit = "%" /\ m.percent.tag = ""
            /\ m.before > 0 =>
                  /\ IsOneDecimalPercent(m.percent.num, m.diff, m.before)
                  /\ Sign(Tenths(m.percent.num)) \in {0, Sign(m.diff)}
                  /\ Tenths(m.percent.num) = 0 <=> 2000 * Abs(m.diff) < m.before
            /\ m.before = 0 => m.percent.num = ZeroPointZero

C9_Witness ==
    /\ Analyzed
    /\ analysis.vertices.before = 2002 /\ analysis.vertices.diff = -1
    /\ analysis.vertices.percent.num = NumText("fixed", TRUE, 0, 0, 1)
    /\ analysis.geometry.before = 2002 /\ analysis.geometry.diff = -2001
    /\ analysis.geometry.percent.num = NumText("fixed", TRUE, 100, 0, 1)

UVRemovalHighlight == Highlight("volume drop mainly from prune deleting unused UV", <<>>)

\* C10 as stated: the UV change is "removed" iff after < before, "added" iff
\* after > before, "unchanged" iff equal; a removed or added change carries
\* the change relative to before with one decimal, so a complete removal
\* reads 100.0% and puts the UV-removal message in the highlights.
C10_UVOneDecimal ==
    Analyzed =>
        LET b == CountUV(before.meshes)
            a == CountUV(after.meshes)
            ch == analysis.uv.change
        IN  /\ ch.tag = "DELETED" <=> a < b
            /\ ch.tag = "ADDED" <=> a > b
            /\ ch.tag = "" <=> a = b
            /\ (a # b /\ b > 0) => IsOneDecimalPercent(ch.num, Abs(a - b), b)
            /\ (b > 0 /\ a = 0) =>
                  /\ ch.num = NumText("fixed", FALSE, 100, 0, 1)
                  /\ UVRemovalHighlight \in Range(analysis.highlights)

\* C10 amended: the UV change is "removed" iff after < before, "added" iff
\* after > before, "unchanged" (the text 0%) iff equal.  A partial removal
\* (0 < after < before) and an addition with before > 0 carry the change
\* relative to before with one decimal; a complete removal (after = 0 <
\* before) carries the literal 100% without a decimal, so 3 -> 0 reads
\* "100% removed"; an addition from before = 0 carries Infinity%.  The
\* UV-removal message is in the highlights exactly when the change is
\* "removed".
C10_UVClassification ==
    Analyzed =>
        LET b == CountUV(before.meshes)
            a == CountUV(after.meshes)
            ch == analysis.uv.change
        IN  /\ analysis.uv.before = b /\ analysis.uv.after = a
            /\ ch.unit = "%"
            /\ ch.tag = "DELETED" <=> a < b
            /\ ch.tag = "ADDED" <=> a > b
            /\ ch.tag = "" <=> a = b
            /\ a = b => ch.num = Literal(0)
            /\ (b > 0 /\ a = 0) => ch.num = Literal(100)
            /\ (0 < a /\ a < b) => IsOneDecimalPercent(ch.num, b - a, b)
            /\ (0 < b /\ b < a) => IsOneDecimalPercent(ch.num, a - b, b)
            /\ (b = 0 /\ a > 0) => (ch.num.kind = "Infinity" /\ ~ch.num.neg)
            /\ UVRemovalHighlight \in Range(analysis.highlights) <=> a < b

C10_Witness ==
    /\ Analyzed
    /\ CountUV(before.meshes) = 3 /\ Len(before.meshes) = 3
    /\ CountUV(after.meshes) = 0
    /\ analysis.uv.change = Text(Literal(100), "DELETED")
    /\ UVRemovalHighlight \in Range(analysis.highlights)

DedupHighlight(b, a) == Highlight("materials reduced by dedup from _ to _", <<b, a>>)
DracoHighlight == Highlight("Draco geometry compression applied", <<>>)
KTX2Highlight == Highlight("KTX2 texture compression applied", <<>>)

RECURSIVE SumSeq(_)
SumSeq(q) == IF q = <<>> THEN 0 ELSE Head(q) + SumSeq(Tail(q))

\* the texture count of a snapshot: the registry when there is one, the
\* per-material references otherwise
TextureCount(snap) ==
    IF snap.registry # NoRegistry THEN snap.registry ELSE SumSeq(snap.materials)

\* the four highlight rules in their fixed order: condition and message
HighlightRules ==
    << [holds |-> CountUV(after.meshes) < CountUV(before.meshes),
        msg   |-> UVRemovalHighlight],
       [holds |-> Len(after.materials) < Len(before.materials),
        msg   |-> DedupHighlight(Len(before.materials), Len(after.materials))],
       [holds |-> cmpOptions.draco,
        msg   |-> DracoHighlight],
       [holds |-> cmpOptions.ktx2 /\ (TextureCount(before) > 0 \/ TextureCount(after) > 0),
        msg   |-> KTX2Highlight] >>

\* C11: the highlight list is exactly the subsequence of the rule order
\* [UV removed, material deduplication with the before and after counts,
\* geometry compression, texture compression] whose conditions hold (UV
\* removed; material count decreased; draco requested; ktx2 requested and
\* textures present); every rule contributes at most one string, so the list
\* has no duplicates and at most four entries.
C11_HighlightsAreRuleSubsequence ==
    Analyzed =>
        LET H == analysis.highlights
            R == HighlightRules
        IN  /\ Len(H) <= 4
            /\ NoDuplicates(H)
            /\ Len(H) = Cardinality({r \in 1..4 : R[r].holds})
            /\ \A r \in 1..4 : R[r].holds <=> R[r].msg \in Range(H)
            /\ \A r1, r2 \in 1..4 :
                  (r1 < r2 /\ R[r1].holds /\ R[r2].holds) =>
                      Pos(H, R[r1].msg) < Pos(H, R[r2].msg)

C11_Witness ==
    /\ Analyzed
    /\ analysis.highlights =
          <<UVRemovalHighlight, DedupHighlight(2, 1), DracoHighlight, KTX2Highlight>>

\* C12: the texture count of a snapshot is the size of the texture registry
\* when it is present, otherwise the sum of the per-material texture
\* references (zero without materials); when it is zero in both snapshots
\* textures are flagged inapplicable whatever ktx2 is, and with draco set the
\* highlights hold the geometry-compression message and not the
\* texture-compression message.
C12_TextureCount ==
    Analyzed =>
        /\ analysis.textures.before = TextureCount(before)
        /\ analysis.textures.after = TextureCount(after)
        /\ analysis.textures.hasTextures <=> (TextureCount(before) > 0 \/ TextureCount(after) > 0)
        /\ (TextureCount(before) = 0 /\ TextureCount(after) = 0) =>
              /\ ~analysis.textures.hasTextures
              /\ analysis.textures.ktx2Status = "not applicable"
              /\ KTX2Highlight \notin Range(analysis.highlights)
              /\ cmpOptions.draco => DracoHighlight \in Range(analysis.highlights)

C12_Witness ==
    /\ Analyzed
    /\ cmpOptions.draco /\ cmpOptions.ktx2
    /\ before.registry = 0 /\ SumSeq(before.materials) > 0
    /\ after.registry = NoRegistry /\ after.materials = <<0, 0>>
    /\ analysis.textures.ktx2Status = "not applicable"
    /\ DracoHighlight \in Range(analysis.highlights)
    /\ KTX2Highlight \notin Range(analysis.highlights)

\* C13: comparing a snapshot against itself gives diff 0 and a zero percent
\* on every metric (vertex, UV, geometry size, material, animation, texture)
\* and a highlight list with no message about removal, increase or
\* deduplication.
C13_SelfComparison ==
    (Analyzed /\ before = after) =>
        /\ analysis.vertices.diff = 0
        /\ analysis.vertices.percent = Text(ZeroPointZero, "")
        /\ analysis.uv.before = analysis.uv.after
        /\ analysis.uv.change = Text(Literal(0), "")
        /\ analysis.geometry.diff = 0
        /\ analysis.geometry.percent = Text(ZeroPointZero, "")
        /\ analysis.geometry.diffMB = NumText("fixed", FALSE, 0, 0, 2)
        /\ analysis.materials.diff = 0 /\ analysis.materials.reason = ""
        /\ analysis.animations.before = analysis.animations.after
        /\ analysis.textures.before = analysis.textures.after
        /\ Range(analysis.highlights) \subseteq {DracoHighlight, KTX2Highlight}

C13_Witness ==
    /\ Analyzed /\ before = after
    /\ Len(before.meshes) = 3 /\ analysis.vertices.before = 2002
    /\ analysis.uv.before = 2
    /\ analysis.highlights = <<DracoHighlight>>

RECURSIVE SumVertices(_)
SumVertices(ms) == IF ms = <<>> THEN 0 ELSE Head(ms).vertices + SumVertices(Tail(ms))

\* the vertex metric of one snapshot
VertexMetric(snap) == IF snap.upload # 0 THEN snap.upload ELSE SumVertices(snap.meshes)

\* C14: the vertex metric of each snapshot is chosen independently of the
\* other one: scenes.uploadVertexCount when present and non-zero (even when it
\* differs from the per-mesh sum), the sum of the per-mesh vertex counts
\* otherwise.
C14_VertexMetricPerSnapshot ==
    Analyzed =>
        /\ analysis.vertices.before = VertexMetric(before)
        /\ analysis.vertices.after = VertexMetric(after)
        /\ analysis.vertices.diff = VertexMetric(after) - VertexMetric(before)

C14_Witness ==
    /\ Analyzed
    /\ before.upload = 7 /\ SumVertices(before.meshes) = 2001
    /\ after.upload = 0 /\ SumVertices(after.meshes) = 2002
    /\ analysis.vertices.before = 7 /\ analysis.vertices.after = 2002

\* C15: transient cleanup never removes the final output: whatever the output
\* option is (the file name temp_raw.glb included) the transient path differs
\* from the output path, so once the cleanup stage has run the file written by
\* the write stage is still there, and it is there at every exit with code 0.
C15_CleanupKeepsOutput ==
    /\ Happened("cleanup_temp") =>
          /\ tempGLB # outputGLB
          /\ Wrote(outputGLB, "write") \in written => outputGLB \in files
    /\ (pc = "exit" /\ exitCode = 0) => outputGLB \in files

Printed == cmpPc = "printed"

\* the class a printed line shows: reduction (green), increase (yellow),
\* no change (gray)
PrintedClass(line) ==
    IF line.color = "green" THEN -1 ELSE IF line.color = "yellow" THEN 1 ELSE 0

\* C16: the class the report prints for the vertex metric and for the
\* geometry-size metric agrees with the sign of the computed diff: a positive
\* diff is printed as an increase, a negative one as a reduction, and only a
\* zero diff as no change.  (PrintReport leaves the analysis unchanged.)
C16_PrintedClassMatchesDiff ==
    Printed =>
        /\ PrintedClass(report.vertexChange) = Sign(analysis.vertices.diff)
        /\ PrintedClass(report.geometryChange) = Sign(analysis.geometry.diff)

====
